---- MODULE Spec2Model ----
(***************************************************************************)
(* pack_project.py: the tree walk of iter_files, the selection rules, the  *)
(* sort of the accepted list, the write loop of main with its four         *)
(* counters, and the binary sniff is_probably_binary.                      *)
(*                                                                         *)
(* A Python str is a tuple of one-character strings here, so that lower(), *)
(* replace(), Path.suffix, lstrip() and fnmatch are computed character by  *)
(* character.  File and directory names, extensions and glob patterns live *)
(* in the state as TLA+ strings; Chars gives their characters.             *)
(***************************************************************************)
EXTENDS Integers, Sequences, FiniteSets, TLC

VARIABLES
    args,              \* the parsed command line (argparse namespace + derived sets)
    scan,              \* order in which scandir lists the files of each real directory
    stack,             \* os.walk: directories still to be listed, next one first
    visited,           \* how many times each real directory has been listed
    enumerated,        \* paths the walker has handed to the file rules
    listFailed,        \* paths of directories whose listing raised OSError
    files,             \* list(iter_files(...)), then sorted
    pc,                \* position in main
    idx,               \* position of the write loop in files
    file_count,        \* the FILE_COUNT header value, -1 before the header is written
    written, skipped_binary, skipped_too_large, skipped_errors,
    opened,            \* indexes of files on which open() was called (sniff or read)
    log,               \* per processed file: what happened to it
    stderr,            \* the [warn] lines, as the relative paths they name
    data, readable, sniff_bytes, verdict, spc   \* a call of is_probably_binary on its own

vars == <<args, scan, stack, visited, enumerated, listFailed, files, pc, idx,
          file_count, written, skipped_binary, skipped_too_large, skipped_errors,
          opened, log, stderr, data, readable, sniff_bytes, verdict, spc>>

mainVars == <<args, scan, stack, visited, enumerated, listFailed, files, pc, idx,
              file_count, written, skipped_binary, skipped_too_large, skipped_errors,
              opened, log, stderr>>

sniffVars == <<data, readable, sniff_bytes, verdict, spc>>

----------------------------------------------------------------------------
(* Bounds *)

\* Number of symbolic links the operating system resolves in one path
\* before stat() fails with ELOOP (40 on Linux).
SymlinkMax == 1

\* Longest file content given to is_probably_binary on its own, besides the
\* 100-byte contents that give whole percentages.
MaxLen == 10

----------------------------------------------------------------------------
(* Characters *)

Chars ==
    "Cargo.lock" :> <<"C", "a", "r", "g", "o", ".", "l", "o", "c", "k">> @@
    "README" :> <<"R", "E", "A", "D", "M", "E">> @@
    "readme" :> <<"r", "e", "a", "d", "m", "e">> @@
    "notes.bin" :> <<"n", "o", "t", "e", "s", ".", "b", "i", "n">> @@
    "src" :> <<"s", "r", "c">> @@
    "Build" :> <<"B", "u", "i", "l", "d">> @@
    "pkg" :> <<"p", "k", "g">> @@
    "priv" :> <<"p", "r", "i", "v">> @@
    "main.rs" :> <<"m", "a", "i", "n", ".", "r", "s">> @@
    "lnk" :> <<"l", "n", "k">> @@
    "output.o" :> <<"o", "u", "t", "p", "u", "t", ".", "o">> @@
    "gen.rs" :> <<"g", "e", "n", ".", "r", "s">> @@
    "api.generated.ts" :> <<"a", "p", "i", ".", "g", "e", "n", "e", "r", "a", "t", "e", "d", ".", "t", "s">> @@
    "plain.ts" :> <<"p", "l", "a", "i", "n", ".", "t", "s">> @@
    "key.rs" :> <<"k", "e", "y", ".", "r", "s">> @@
    "rs" :> <<"r", "s">> @@
    "toml" :> <<"t", "o", "m", "l">> @@
    "ts" :> <<"t", "s">> @@
    "lock" :> <<"l", "o", "c", "k">> @@
    "o" :> <<"o">> @@
    "BUILD" :> <<"B", "U", "I", "L", "D">> @@
    "" :> <<>> @@
    "dockerfile" :> <<"d", "o", "c", "k", "e", "r", "f", "i", "l", "e">> @@
    "makefile" :> <<"m", "a", "k", "e", "f", "i", "l", "e">> @@
    "license" :> <<"l", "i", "c", "e", "n", "s", "e">> @@
    "cargo.toml" :> <<"c", "a", "r", "g", "o", ".", "t", "o", "m", "l">> @@
    "cargo.lock" :> <<"c", "a", "r", "g", "o", ".", "l", "o", "c", "k">> @@
    "build.rs" :> <<"b", "u", "i", "l", "d", ".", "r", "s">> @@
    "rust-toolchain" :> <<"r", "u", "s", "t", "-", "t", "o", "o", "l", "c", "h", "a", "i", "n">> @@
    "rustfmt.toml" :> <<"r", "u", "s", "t", "f", "m", "t", ".", "t", "o", "m", "l">> @@
    ".gitignore" :> <<".", "g", "i", "t", "i", "g", "n", "o", "r", "e">> @@
    ".gitattributes" :> <<".", "g", "i", "t", "a", "t", "t", "r", "i", "b", "u", "t", "e", "s">> @@
    ".editorconfig" :> <<".", "e", "d", "i", "t", "o", "r", "c", "o", "n", "f", "i", "g">> @@
    "readme.md" :> <<"r", "e", "a", "d", "m", "e", ".", "m", "d">> @@
    "**/*.generated.ts" :> <<"*", "*", "/", "*", ".", "g", "e", "n", "e", "r", "a", "t", "e", "d", ".", "t", "s">> @@
    "/Build/*" :> <<"/", "B", "u", "i", "l", "d", "/", "*">> @@
    "*.LOCK" :> <<"*", ".", "L", "O", "C", "K">> @@
    "**/*.ts" :> <<"*", "*", "/", "*", ".", "t", "s">> @@
    "read*" :> <<"r", "e", "a", "d", "*">> @@
    "pkg\\*" :> <<"p", "k", "g", "\\", "*">>

\* the printable ASCII characters in code order, from 0x20 (the grave accent,
\* 0x60, is written <grave>)
Ascii ==
  <<
    " ", "!", "\"", "#", "$", "%", "&", "'", "(", ")", "*", "+", ",", "-", ".", "/",
    "0", "1", "2", "3", "4", "5", "6", "7", "8", "9", ":", ";", "<", "=", ">", "?",
    "@", "A", "B", "C", "D", "E", "F", "G", "H", "I", "J", "K", "L", "M", "N", "O",
    "P", "Q", "R", "S", "T", "U", "V", "W", "X", "Y", "Z", "[", "\\", "]", "^", "_",
    "<grave>", "a", "b", "c", "d", "e", "f", "g", "h", "i", "j", "k", "l", "m", "n", "o",
    "p", "q", "r", "s", "t", "u", "v", "w", "x", "y", "z", "{", "|", "}", "~"
  >>

\* ord(c), as a table
OrdTable == [c \in {Ascii[k] : k \in 1..Len(Ascii)} |-> 31 + (CHOOSE k \in 1..Len(Ascii) : Ascii[k] = c)]

Ord(c) == OrdTable[c]

\* c.lower(), as a table: A..Z are 32 below a..z
LowerTable == [c \in DOMAIN OrdTable |-> IF OrdTable[c] \in 65..90 THEN Ascii[OrdTable[c] + 32 - 31] ELSE c]

LowerChar(c) == LowerTable[c]

\* str.lower()
Lower(s) == [i \in 1..Len(s) |-> LowerChar(s[i])]

\* str.replace("\\", "/")
ReplaceBackslash(s) == [i \in 1..Len(s) |-> IF s[i] = "\\" THEN "/" ELSE s[i]]

\* str.lstrip(c)
RECURSIVE LStrip(_, _)
LStrip(s, c) == IF s # <<>> /\ Head(s) = c THEN LStrip(Tail(s), c) ELSE s

\* str.rfind("."), 1-based, 0 when there is no dot
RFindDot(s) == IF \E i \in 1..Len(s) : s[i] = "."
               THEN CHOOSE i \in 1..Len(s) : s[i] = "." /\ \A j \in (i+1)..Len(s) : s[j] # "."
               ELSE 0

\* Path.suffix: from the last dot on, unless that dot is the first or the
\* last character of the name
Suffix(name) ==
    LET i == RFindDot(name)
    IN  IF 1 < i /\ i < Len(name) THEN SubSeq(name, i, Len(name)) ELSE <<>>

\* p.suffix.lower().lstrip(".")
ExtOf(name) == LStrip(Lower(Suffix(name)), ".")

\* str(rel): the components joined by "/"
RECURSIVE JoinPath(_)
JoinPath(p) == IF p = <<>> THEN <<>>
               ELSE IF Len(p) = 1 THEN Chars[p[1]]
               ELSE Chars[p[1]] \o <<"/">> \o JoinPath(Tail(p))

\* str(p.relative_to(root)).replace("\\", "/")
RelPosix(p) == ReplaceBackslash(JoinPath(p))

\* ... .lower()
RelLower(p) == Lower(RelPosix(p))

\* comparison of two str values, by code point
RECURSIVE StrLess(_, _)
StrLess(a, b) ==
    IF b = <<>> THEN FALSE
    ELSE IF a = <<>> THEN TRUE
    ELSE IF Head(a) # Head(b) THEN Ord(Head(a)) < Ord(Head(b))
    ELSE StrLess(Tail(a), Tail(b))

\* fnmatch.fnmatchcase(s, p) for patterns made of literals, * and ?:
\* * matches any run of characters, "/" included (a run of * is one *);
\* ? matches one character; the whole of s must match
RECURSIVE GlobFrom(_, _, _, _)
GlobFrom(s, p, i, j) ==
    IF j > Len(p) THEN i > Len(s)
    ELSE IF p[j] = "*" THEN
        IF j < Len(p) /\ p[j + 1] = "*" THEN GlobFrom(s, p, i, j + 1)
        ELSE GlobFrom(s, p, i, j + 1) \/ (i <= Len(s) /\ GlobFrom(s, p, i + 1, j))
    ELSE i <= Len(s) /\ (p[j] = "?" \/ p[j] = s[i]) /\ GlobFrom(s, p, i + 1, j + 1)

fnmatch(s, p) == GlobFrom(s, p, 1, 1)

\* the pattern as _match_any_glob matches it
NormPattern(pat) == LStrip(Lower(ReplaceBackslash(pat)), "/")

_match_any_glob(rel_posix_lower, patterns) ==
    \E k \in 1..Len(patterns) : fnmatch(rel_posix_lower, NormPattern(patterns[k]))

----------------------------------------------------------------------------
(* Program constants *)

\* NAME_LANG_OVERRIDES.keys()
NAME_LANG_OVERRIDES ==
    {"dockerfile", "makefile", "license", "cargo.toml", "cargo.lock", "build.rs",
     "rust-toolchain", "rustfmt.toml", ".gitignore", ".gitattributes",
     ".editorconfig", "readme", "readme.md"}

\* default of the sniff_bytes parameter of is_probably_binary
DefaultSniffBytes == 4096

\* text_chars of is_probably_binary
text_chars == {7, 8, 9, 10, 12, 13, 27} \cup (32..126)

----------------------------------------------------------------------------
(* The tree under the root.  A real directory has the files it contains    *)
(* and its subdirectory entries; an entry that is a symbolic link names    *)
(* the real directory it points to.  src/lnk points back to the root.      *)

Tree ==
    [root  |-> [files |-> {"Cargo.lock", "README", "readme"},
                subs  |-> << [name |-> "src",   real |-> "src",   link |-> FALSE],
                             [name |-> "Build", real |-> "build", link |-> FALSE],
                             [name |-> "pkg",   real |-> "pkg",   link |-> FALSE],
                             [name |-> "priv",  real |-> "priv",  link |-> FALSE] >>],
     src   |-> [files |-> {"main.rs", "notes.bin"},
                subs  |-> << [name |-> "lnk",   real |-> "root",  link |-> TRUE] >>],
     build |-> [files |-> {"output.o", "gen.rs"},  subs |-> << >>],
     pkg   |-> [files |-> {"api.generated.ts", "plain.ts"}, subs |-> << >>],
     priv  |-> [files |-> {"key.rs"}, subs |-> << >>]]

RealDirs == DOMAIN Tree

\* directories whose listing may raise (permissions, I/O error)
Unlistable == {"priv"}

\* content of each regular file, as bytes
FileBytes ==
    "Cargo.lock"       :> <<118, 61, 51, 10>> @@
    "README"           :> <<72, 105, 10>> @@
    "readme"           :> <<104, 105, 33, 10, 10>> @@
    "main.rs"          :> <<102, 110, 10>> @@
    "notes.bin"        :> <<0, 255, 1>> @@
    "output.o"         :> <<127, 69, 76, 70, 0>> @@
    "gen.rs"           :> << >> @@
    "api.generated.ts" :> <<120, 61, 49, 59, 10>> @@
    "plain.ts"         :> <<121, 59, 10>> @@
    "key.rs"           :> <<200, 201, 65>>

\* files on which stat, open, read or the write of the block may fail
Flaky == {"main.rs"}

\* the name-sorted listing of a set of names
RECURSIVE Listing(_)
Listing(S) ==
    IF S = {} THEN << >>
    ELSE LET m == CHOOSE x \in S : \A y \in S : y = x \/ StrLess(Chars[x], Chars[y])
         IN  <<m>> \o Listing(S \ {m})

Reverse(s) == [i \in 1..Len(s) |-> s[Len(s) + 1 - i]]

\* scandir order is the file system's: names ascending, or names descending
ScanOrders ==
    {[d \in RealDirs |-> Listing(Tree[d].files)],
     [d \in RealDirs |-> Reverse(Listing(Tree[d].files))]}

----------------------------------------------------------------------------
(* Command line, after the parsing of main (lines 280-288): names are      *)
(* stripped and non-empty, extensions are lowercased.                      *)

SelectArgSets ==
    [exclude_dirs    : {{}, {"BUILD"}},
     exts            : {{"rs", "toml", "ts"}},
     include_globs   : {<< >>, <<"**/*.generated.ts">>, <<"/Build/*", "*.LOCK">>},
     ignore_globs    : {<< >>, <<"**/*.ts">>, <<"read*", "pkg\\*">>},
     ignore_exts     : {{}, {"lock", "ts", "o"}},
     prefer_include  : BOOLEAN,
     follow_symlinks : BOOLEAN,
     max_bytes       : {0, 3}]

\* the command lines of the runs followed to the end
ArgSets ==
    [exclude_dirs    : {{"BUILD"}},
     exts            : {{"rs", "toml", "ts"}},
     include_globs   : {<< >>, <<"/Build/*", "*.LOCK">>},
     ignore_globs    : {<< >>},
     ignore_exts     : {{}, {"lock", "ts", "o"}},
     prefer_include  : BOOLEAN,
     follow_symlinks : BOOLEAN,
     max_bytes       : {0, 3}]

----------------------------------------------------------------------------
(* iter_files *)

exclude_dirs_norm == {Lower(Chars[d]) : d \in args.exclude_dirs}

include_names == {Lower(Chars[n]) : n \in NAME_LANG_OVERRIDES}

\* str.strip() of a pattern
RECURSIVE RStrip(_, _)
RStrip(s, c) == IF s # <<>> /\ s[Len(s)] = c THEN RStrip(SubSeq(s, 1, Len(s) - 1), c) ELSE s

Strip(s) == RStrip(LStrip(s, " "), " ")

\* [g.strip() for g in globs if g.strip()]
RECURSIVE StripGlobs(_)
StripGlobs(globs) ==
    IF globs = << >> THEN << >>
    ELSE LET g == Strip(Chars[Head(globs)])
         IN  (IF g # << >> THEN <<g>> ELSE << >>) \o StripGlobs(Tail(globs))

inc_globs == StripGlobs(args.include_globs)

ign_globs == StripGlobs(args.ignore_globs)

ignore_exts_chars == {Chars[e] : e \in args.ignore_exts}

exts_chars == {Chars[e] : e \in args.exts}

\* path.name
BaseName(p) == Chars[p[Len(p)]]

should_include_file(p) ==
    \/ Lower(BaseName(p)) \in include_names
    \/ ExtOf(BaseName(p)) \in exts_chars
    \/ Lower(BaseName(p)) \in {Chars[n] : n \in NAME_LANG_OVERRIDES}

\* the ignore test of line 235
Ignored(p) ==
    \/ (ign_globs # << >> /\ _match_any_glob(RelLower(p), ign_globs))
    \/ (ExtOf(BaseName(p)) # << >> /\ ExtOf(BaseName(p)) \in ignore_exts_chars)

\* matches an include glob (lines 229 and 239)
IncludeGlobbed(p) == inc_globs # << >> /\ _match_any_glob(RelLower(p), inc_globs)

\* the loop body with the ignore test moved above the prefer-include test
YieldsIgnoreFirst(p) ==
    IF Ignored(p) THEN FALSE
    ELSE IF IncludeGlobbed(p) THEN TRUE
    ELSE should_include_file(p)

\* the loop body with the include-glob test above the ignore test whatever
\* prefer_include is
YieldsIncludeFirst(p) ==
    IF IncludeGlobbed(p) THEN TRUE
    ELSE IF Ignored(p) THEN FALSE
    ELSE should_include_file(p)

\* the body of "for fname in filenames": TRUE when p is yielded
Yields(p) ==
    IF args.prefer_include /\ IncludeGlobbed(p) THEN TRUE
    ELSE IF Ignored(p) THEN FALSE
    ELSE IF ~args.prefer_include /\ IncludeGlobbed(p) THEN TRUE
    ELSE should_include_file(p)

\* the pruning test without d.lower()
PrunedCaseSensitive(d) == Chars[d] \in exclude_dirs_norm

\* "if d.lower() in exclude_dirs_norm: dirnames.remove(d)"
Pruned(d) == Lower(Chars[d]) \in exclude_dirs_norm

\* os.walk: entry.is_dir() follows symbolic links; the stat of a link
\* reached through SymlinkMax links already fails, and the entry is then
\* listed among the non-directories
IsDirEntry(e, links) == ~e.link \/ links < SymlinkMax

\* os.walk descends into a symbolic link only with followlinks
Descends(e) == args.follow_symlinks \/ ~e.link

\* one iteration of "for dirpath, dirnames, filenames in os.walk(...)" with
\* the body of the loop
WalkDir ==
    /\ pc = "walk" /\ stack # << >>
    /\ LET top == Head(stack)
           node == Tree[top.real]
           dirnames == SelectSeq(node.subs, LAMBDA e : IsDirEntry(e, top.links))
           nondirs == SelectSeq(node.subs, LAMBDA e : ~IsDirEntry(e, top.links))
           filenames == scan[top.real] \o [i \in 1..Len(nondirs) |-> nondirs[i].name]
           cands == [i \in 1..Len(filenames) |-> Append(top.path, filenames[i])]
           kept == SelectSeq(dirnames, LAMBDA e : ~Pruned(e.name))
           down == SelectSeq(kept, Descends)
           push == [i \in 1..Len(down) |->
                      [path |-> Append(top.path, down[i].name), real |-> down[i].real,
                       links |-> top.links + (IF down[i].link THEN 1 ELSE 0)]]
       IN  \E ok \in (IF top.real \in Unlistable THEN BOOLEAN ELSE {TRUE}) :
             IF ok
             THEN /\ visited' = [visited EXCEPT ![top.real] = @ + 1]
                  /\ enumerated' = enumerated \cup {cands[i] : i \in 1..Len(cands)}
                  /\ files' = files \o SelectSeq(cands, Yields)
                  /\ stack' = push \o Tail(stack)
                  /\ UNCHANGED listFailed
             ELSE \* scandir raised: os.walk has no onerror, the error is dropped
                  /\ listFailed' = listFailed \cup {top.path}
                  /\ stack' = Tail(stack)
                  /\ UNCHANGED <<visited, enumerated, files>>
    /\ UNCHANGED <<args, scan, pc, idx, file_count, written, skipped_binary,
                   skipped_too_large, skipped_errors, opened, log, stderr>>
    /\ UNCHANGED sniffVars

\* the key of files.sort
SortKey(p) == RelLower(p)

\* list.sort is stable: an element goes after every element whose key is not greater
RECURSIVE InsertSorted(_, _)
InsertSorted(s, p) ==
    IF s = << >> THEN <<p>>
    ELSE IF StrLess(SortKey(p), SortKey(Head(s))) THEN <<p>> \o s
    ELSE <<Head(s)>> \o InsertSorted(Tail(s), p)

RECURSIVE SortFiles(_)
SortFiles(s) == IF s = << >> THEN << >>
                ELSE InsertSorted(SortFiles(SubSeq(s, 1, Len(s) - 1)), s[Len(s)])

\* the walk is over: files = list(iter_files(...)); files.sort(key=...)
SortStep ==
    /\ pc = "walk" /\ stack = << >>
    /\ files' = SortFiles(files)
    /\ pc' = "open"
    /\ UNCHANGED <<args, scan, stack, visited, enumerated, listFailed, idx, file_count,
                   written, skipped_binary, skipped_too_large, skipped_errors,
                   opened, log, stderr>>
    /\ UNCHANGED sniffVars

----------------------------------------------------------------------------
(* is_probably_binary *)

Min(a, b) == IF a < b THEN a ELSE b

Max(a, b) == IF a > b THEN a ELSE b

\* f.read(n): at most n bytes from the start of the file
ReadPrefix(bytes, n) == SubSeq(bytes, 1, Min(n, Len(bytes)))

\* sum(b not in text_chars for b in chunk)
RECURSIVE NonText(_)
NonText(chunk) ==
    IF chunk = << >> THEN 0
    ELSE (IF Head(chunk) \notin text_chars THEN 1 ELSE 0) + NonText(Tail(chunk))

\* the threshold test with >= for >
AtOrOverThreshold(nontext, len) == 10 * nontext >= 3 * Max(1, len)

\* (nontext / max(1, len(chunk))) > 0.30.  The quotient is a double: for
\* len(chunk) <= 4096 it is above the double 0.30 exactly when
\* 10 * nontext > 3 * len(chunk).
OverThreshold(nontext, len) == 10 * nontext > 3 * Max(1, len)

\* canOpen: path.open("rb") and f.read do not raise
is_probably_binary(canOpen, bytes, n) ==
    IF ~canOpen THEN TRUE
    ELSE LET chunk == ReadPrefix(bytes, n)
         IN  IF chunk = << >> THEN FALSE
             ELSE IF \E i \in 1..Len(chunk) : chunk[i] = 0 THEN TRUE
             ELSE OverThreshold(NonText(chunk), Len(chunk))

----------------------------------------------------------------------------
(* main, after the walk *)

\* a path the walker yielded is a regular file, or a symbolic link whose
\* stat fails (see IsDirEntry)
IsRegular(p) == p[Len(p)] \in DOMAIN FileBytes

\* fp.stat().st_size
SizeOf(p) == Len(FileBytes[p[Len(p)]])

\* what can go wrong with one file of the write loop
Faults(p) == IF ~IsRegular(p) THEN {"stat"}
             ELSE IF p[Len(p)] \in Flaky THEN {"none", "stat", "open", "read", "write"}
             ELSE {"none"}

\* the size test with >= for >
TooLargeInclusive(size) == args.max_bytes > 0 /\ size >= args.max_bytes

\* "if args.max_bytes > 0 and size > args.max_bytes"
TooLarge(size) == args.max_bytes > 0 /\ size > args.max_bytes

\* the branch of the loop body taken by file p under the given fault
Outcome(p, fault) ==
    IF fault = "stat" THEN "error"
    ELSE IF TooLarge(SizeOf(p)) THEN "too_large"
    ELSE IF is_probably_binary(fault # "open", FileBytes[p[Len(p)]], DefaultSniffBytes) THEN "binary"
    ELSE IF fault \in {"read", "write"} THEN "error"
    ELSE "written"

\* the counters with an "except" branch that counts nothing
IncNoErrors(kind, counter) == IF kind = counter /\ kind # "error" THEN 1 ELSE 0

\* the "+= 1" of the branch
Inc(kind, counter) == IF kind = counter THEN 1 ELSE 0

\* args.output.open("w") and the three header lines; a failure here is the
\* outer "except": exit code 2, no summary
OpenOutput ==
    /\ pc = "open"
    /\ \E ok \in BOOLEAN :
         IF ok THEN file_count' = Len(files) /\ pc' = "loop"
               ELSE file_count' = file_count /\ pc' = "failed"
    /\ UNCHANGED <<args, scan, stack, visited, enumerated, listFailed, files, idx,
                   written, skipped_binary, skipped_too_large, skipped_errors,
                   opened, log, stderr>>
    /\ UNCHANGED sniffVars

\* one iteration of "for fp in files"
ProcessFile ==
    /\ pc = "loop" /\ idx <= Len(files)
    /\ LET fp == files[idx]
       IN  \E fault \in Faults(fp) :
             LET kind == Outcome(fp, fault)
             IN  /\ written' = written + Inc(kind, "written")
                 /\ skipped_binary' = skipped_binary + Inc(kind, "binary")
                 /\ skipped_too_large' = skipped_too_large + Inc(kind, "too_large")
                 /\ skipped_errors' = skipped_errors + Inc(kind, "error")
                 /\ opened' = IF fault # "stat" /\ ~TooLarge(SizeOf(fp))
                              THEN opened \cup {idx} ELSE opened
                 /\ stderr' = IF kind = "error" THEN Append(stderr, fp) ELSE stderr
                 /\ log' = Append(log, [fault |-> fault, kind |-> kind])
    /\ idx' = idx + 1
    /\ UNCHANGED <<args, scan, stack, visited, enumerated, listFailed, files, pc, file_count>>
    /\ UNCHANGED sniffVars

\* the SUMMARY line, the "Done." line and sys.exit(0)
WriteSummary ==
    /\ pc = "loop" /\ idx > Len(files)
    /\ pc' = "done"
    /\ UNCHANGED <<args, scan, stack, visited, enumerated, listFailed, files, idx, file_count,
                   written, skipped_binary, skipped_too_large, skipped_errors,
                   opened, log, stderr>>
    /\ UNCHANGED sniffVars

----------------------------------------------------------------------------
(* Specification of a run of main *)

SniffIdle ==
    /\ data = << >> /\ readable = TRUE /\ sniff_bytes = DefaultSniffBytes
    /\ verdict = FALSE /\ spc = "idle"

\* main before the walk, given the command line
Start(a) ==
    /\ args = a
    /\ scan \in ScanOrders
    /\ stack = << [path |-> << >>, real |-> "root", links |-> 0] >>
    /\ visited = [d \in RealDirs |-> 0]
    /\ enumerated = {}
    /\ listFailed = {}
    /\ files = << >>
    /\ pc = "walk"
    /\ idx = 1
    /\ file_count = -1
    /\ written = 0 /\ skipped_binary = 0 /\ skipped_too_large = 0 /\ skipped_errors = 0
    /\ opened = {}
    /\ log = << >>
    /\ stderr = << >>
    /\ SniffIdle

Init == \E a \in ArgSets : Start(a)

Next == WalkDir \/ SortStep \/ OpenOutput \/ ProcessFile \/ WriteSummary

Spec == Init /\ [][Next]_vars

----------------------------------------------------------------------------
(* Specification of main up to the sorted list of files, over more command *)
(* lines                                                                   *)

SelectInit == \E a \in SelectArgSets : Start(a)

SelectNext == WalkDir \/ SortStep

SpecSelect == SelectInit /\ [][SelectNext]_vars

----------------------------------------------------------------------------
(* Specification of is_probably_binary on its own *)

\* bytes at the edges of text_chars, and NUL
NonTextBytes == {6, 11, 31, 127, 255}

TextBytes == {7, 13, 27, 32, 126}

SniffSizes == {4, 10, DefaultSniffBytes}

\* a hundred bytes, so that k of them are k per cent
Hundred == 100

\* the shares of bytes b tried in a hundred bytes: 28% to 32%
Shares == 28..32

\* k bytes b and n - k bytes t, the b's first or last, then a NUL or not
Content(n, k, b, t, bFirst, nul) ==
    [i \in 1..n |-> IF (bFirst /\ i <= k) \/ (~bFirst /\ i > n - k) THEN b ELSE t]
    \o (IF nul THEN <<0>> ELSE << >>)

Mixes(n, ks) ==
    {Content(n, k, b, t, bFirst, nul) :
        k \in ks, b \in NonTextBytes, t \in TextBytes, bFirst \in BOOLEAN, nul \in BOOLEAN}

Contents == UNION {Mixes(n, 0..n) : n \in 0..MaxLen} \cup Mixes(Hundred, Shares)

MainIdle ==
    /\ args = [exclude_dirs |-> {}, exts |-> {}, include_globs |-> << >>,
               ignore_globs |-> << >>, ignore_exts |-> {}, prefer_include |-> FALSE,
               follow_symlinks |-> FALSE, max_bytes |-> 0]
    /\ scan = [d \in RealDirs |-> << >>]
    /\ stack = << >> /\ visited = [d \in RealDirs |-> 0]
    /\ enumerated = {} /\ listFailed = {} /\ files = << >>
    /\ pc = "idle" /\ idx = 1 /\ file_count = -1
    /\ written = 0 /\ skipped_binary = 0 /\ skipped_too_large = 0 /\ skipped_errors = 0
    /\ opened = {} /\ log = << >> /\ stderr = << >>

SniffInit ==
    /\ MainIdle
    /\ data \in Contents
    /\ readable \in BOOLEAN
    /\ sniff_bytes \in SniffSizes
    /\ verdict = FALSE
    /\ spc = "call"

\* a call of is_probably_binary(path, sniff_bytes)
Sniff ==
    /\ spc = "call"
    /\ verdict' = is_probably_binary(readable, data, sniff_bytes)
    /\ spc' = "returned"
    /\ UNCHANGED <<data, readable, sniff_bytes>>
    /\ UNCHANGED mainVars

SniffNext == Sniff

SpecSniff == SniffInit /\ [][SniffNext]_vars

----------------------------------------------------------------------------
(* Properties *)

\* the paths in files
Yielded == {files[i] : i \in 1..Len(files)}

\* the directory components of a path: all but the last
DirParts(p) == {p[k] : k \in 1..(Len(p) - 1)}

\* C1: every file the walker enumerates whose lowercased base name is a
\* name-override entry is yielded by iter_files, whatever the ignore globs,
\* excluded extensions, include globs and preferInclude are.
C1_NameOverrideAlwaysYielded ==
    \A p \in enumerated :
        Lower(BaseName(p)) \in {Chars[n] : n \in NAME_LANG_OVERRIDES} => p \in Yielded

\* C2: no file below a directory whose name is, case-insensitively, in the
\* excluded-directory set is enumerated or yielded, whatever the include
\* globs, preferInclude, the name overrides and followSymlinks are.
C2_ExcludedDirsNeverEnumerated ==
    \A p \in enumerated \cup Yielded :
        \A d \in DirParts(p) : \A x \in args.exclude_dirs : Lower(Chars[d]) # Lower(Chars[x])

\* C2 witness: BUILD is excluded, an include glob with preferInclude matches
\* everything in Build, the walk is over and listed the root but never Build.
C2_Witness ==
    /\ pc # "walk" /\ args.exclude_dirs = {"BUILD"}
    /\ args.prefer_include /\ args.include_globs = <<"/Build/*", "*.LOCK">>
    /\ args.follow_symlinks
    /\ visited["root"] > 0 /\ visited["build"] = 0
    /\ <<"src", "main.rs">> \in Yielded

\* C3: with preferInclude, when the walk is over, every enumerated file that
\* matches an include glob has been yielded even if an ignore glob or an
\* excluded extension matches it, and a file that matches no include glob and
\* is hit by an ignore rule has not.
C3_PreferIncludeBeatsIgnore ==
    (args.prefer_include /\ stack = << >>) =>
        \A p \in enumerated :
            /\ IncludeGlobbed(p) => p \in Yielded
            /\ (~IncludeGlobbed(p) /\ Ignored(p)) => p \notin Yielded

\* C3 witness: include **/*.generated.ts, ignore **/*.ts and extension ts:
\* pkg/api.generated.ts is yielded, pkg/plain.ts is not.
C3_Witness ==
    /\ args.prefer_include
    /\ args.include_globs = <<"**/*.generated.ts">>
    /\ args.ignore_globs = <<"**/*.ts">>
    /\ "ts" \in args.ignore_exts
    /\ stack = << >>
    /\ <<"pkg", "api.generated.ts">> \in Yielded
    /\ <<"pkg", "plain.ts">> \in enumerated \ Yielded

\* C4: without preferInclude, when the walk is over, an enumerated file whose
\* base name is no name override has been yielded exactly when no ignore rule
\* (ignore glob, non-empty excluded extension) matches it and an include glob
\* or an included extension does.
C4_IgnoreBeatsInclude ==
    (~args.prefer_include /\ stack = << >>) =>
        \A p \in enumerated :
            Lower(BaseName(p)) \notin {Chars[n] : n \in NAME_LANG_OVERRIDES} =>
                (p \in Yielded <=>
                    /\ ~(\/ _match_any_glob(RelLower(p), ign_globs)
                         \/ (ExtOf(BaseName(p)) # << >> /\ ExtOf(BaseName(p)) \in ignore_exts_chars))
                    /\ (\/ _match_any_glob(RelLower(p), inc_globs)
                        \/ ExtOf(BaseName(p)) \in exts_chars))

\* C4 witness: ts is both included and excluded and pkg/api.generated.ts also
\* matches the include glob, yet it is not yielded; src/main.rs is.
C4_Witness ==
    /\ ~args.prefer_include
    /\ args.include_globs = <<"**/*.generated.ts">>
    /\ "ts" \in args.ignore_exts /\ "ts" \in args.exts
    /\ stack = << >>
    /\ <<"pkg", "api.generated.ts">> \in enumerated \ Yielded
    /\ <<"src", "main.rs">> \in Yielded

\* the files of the write loop whose stat succeeded
Statted == {i \in 1..Len(log) : log[i].fault # "stat"}

\* C5: with maxBytes > 0 a selected file of size <= maxBytes passes the size
\* check and is opened for the sniff, a file of size > maxBytes is counted as
\* too large and never opened; with maxBytes = 0 nothing is too large.
C5_SizeBoundary ==
    /\ \A i \in Statted :
         LET size == Len(FileBytes[files[i][Len(files[i])]])
         IN  /\ (args.max_bytes > 0 /\ size >= args.max_bytes + 1) =>
                    (log[i].kind = "too_large" /\ i \notin opened)
             /\ (args.max_bytes > 0 /\ size <= args.max_bytes) =>
                    (log[i].kind # "too_large" /\ i \in opened)
             /\ args.max_bytes = 0 => log[i].kind # "too_large"
    /\ skipped_too_large = Cardinality({i \in 1..Len(log) : log[i].kind = "too_large"})
    /\ args.max_bytes = 0 => skipped_too_large = 0

\* C5 witness: maxBytes = 3; README (3 bytes, a name override) was opened,
\* Cargo.lock (4 bytes, a name override) was counted too large and not opened.
C5_Witness ==
    /\ args.max_bytes = 3
    /\ \E i, j \in Statted :
         /\ files[i] = <<"README">> /\ i \in opened /\ log[i].kind = "written"
         /\ files[j] = <<"Cargo.lock">> /\ j \notin opened /\ log[j].kind = "too_large"

\* C6: is_probably_binary: unreadable is binary; an empty prefix is text; a
\* prefix with a NUL byte is binary; otherwise binary exactly when the bytes
\* outside {7,8,9,10,12,13,27} and 0x20..0x7E are more than 30% of the prefix.
C6_SniffClassification ==
    spc = "returned" =>
        LET n == IF Len(data) < sniff_bytes THEN Len(data) ELSE sniff_bytes
            odd == {i \in 1..n : data[i] \notin ({7, 8, 9, 10, 12, 13, 27} \cup (32..126))}
        IN  verdict = IF ~readable THEN TRUE
                      ELSE IF n = 0 THEN FALSE
                      ELSE IF \E i \in 1..n : data[i] = 0 THEN TRUE
                      ELSE 100 * Cardinality(odd) > 30 * n

\* C6 witness: a readable file of 100 bytes without NUL, exactly 30 of them
\* outside the text set, read whole, came back as text.
C6_Witness ==
    /\ spc = "returned" /\ readable /\ Len(data) = 100 /\ sniff_bytes >= 100
    /\ \A i \in 1..100 : data[i] # 0
    /\ Cardinality({i \in 1..100 : data[i] \notin text_chars}) = 30
    /\ verdict = FALSE

\* C7: the walk lists no directory twice, also when followSymlinks is on and
\* a link points to one of its ancestors.
C7_NoDirectoryVisitedTwice == \A d \in RealDirs : visited[d] <= 1

\* C8: after the sort, files ascend by lowercased relative path, and paths
\* whose lowercased forms are equal ascend by their original form.
C8_SortIsTotalOrder ==
    pc # "walk" =>
        \A i, j \in 1..Len(files) :
            i < j => \/ StrLess(RelLower(files[i]), RelLower(files[j]))
                     \/ /\ RelLower(files[i]) = RelLower(files[j])
                        /\ StrLess(RelPosix(files[i]), RelPosix(files[j]))

\* the files of the write loop that ended in the "except" branch
FileErrors == Cardinality({i \in 1..Len(log) : log[i].kind = "error"})

\* C9: when the run ends, every directory whose listing failed shows in the
\* error output or in skipped_errors.
C9_ListingFailureReported ==
    pc = "done" =>
        \A d \in listFailed :
            \/ \E i \in 1..Len(stderr) : stderr[i] = d
            \/ skipped_errors >= FileErrors + Cardinality(listFailed)

\* the sum of the four counters
Accounted == written + skipped_binary + skipped_too_large + skipped_errors

\* what one step of the write loop does to the counters
C10_OneCounterPerFile ==
    idx' # idx =>
        /\ idx' = idx + 1
        /\ Accounted' = Accounted + 1
        /\ written' >= written /\ skipped_binary' >= skipped_binary
        /\ skipped_too_large' >= skipped_too_large /\ skipped_errors' >= skipped_errors
        /\ pc' = "loop"

\* where the faults of the write loop are counted
C10_FaultsCounted ==
    /\ Len(log) = idx - 1
    /\ \A i \in 1..Len(log) :
         /\ log[i].fault = "stat" => log[i].kind = "error"
         /\ (log[i].fault = "open" /\ i \in opened) => log[i].kind = "binary"
         /\ (log[i].fault = "read" /\ i \in opened) => log[i].kind \in {"binary", "error"}
    /\ skipped_errors = Cardinality({i \in 1..Len(log) : log[i].kind = "error"})
    /\ skipped_binary = Cardinality({i \in 1..Len(log) : log[i].kind = "binary"})
    /\ pc = "done" => (idx = Len(files) + 1 /\ Accounted = file_count)

\* C10: each file of the write loop adds one to exactly one of written,
\* skipped_binary, skipped_too_large, skipped_errors (a stat or read failure
\* to skipped_errors, a failed open of the sniff to skipped_binary), the loop
\* goes on to the next file, and at the summary the four add up to FILE_COUNT.
C10_EveryFileAccounted == [][C10_OneCounterPerFile]_vars /\ []C10_FaultsCounted

\* C10 witness: a finished run with a file in each of the four counters, one
\* of them after a failed stat and one after a failed open.
C10_Witness ==
    /\ pc = "done"
    /\ written > 0 /\ skipped_binary > 0 /\ skipped_too_large > 0 /\ skipped_errors > 0
    /\ \E i, j \in 1..Len(log) : log[i].fault = "stat" /\ log[j].fault = "open"

====
